---- MODULE Spec2Model ----
(***************************************************************************)
(* A model of the chain session of src/src/chain.ts (class Chain): session *)
(* setup, the block-production monitor (isProducingBlock, waitTillBlock,   *)
(* waitTillNextBlock) and the time-travel controller (addTime).            *)
(*                                                                         *)
(* Every async method is cut at its suspension points (an awaited RPC      *)
(* query, an awaited sleep, an awaited collaborator call).  Between two    *)
(* steps of the program the node may produce blocks (ProduceBlock).        *)
(*                                                                         *)
(* Units.  Block timestamps have a 0.5 s granularity, so a block time is   *)
(* held as a count of half seconds and blockTimeToMs turns it into         *)
(* milliseconds.  The `time` argument of addTime is held in half seconds   *)
(* as well (time = 3 stands for addTime(1.5)); timeAdded, addingTime and   *)
(* the offsets passed to manipulateChainTime are whole seconds, as in the  *)
(* source.                                                                 *)
(***************************************************************************)
EXTENDS Integers, Sequences, FiniteSets, TLC

\* ------------------------------------------------------------------ bounds
\* The node stops producing when its head block number reaches MaxHead.
MaxHead == 11
\* Number of public operations the test code starts on a session.
MaxCalls == 2
\* Largest numBlocks the test code passes to waitTillNextBlock.
MaxNumBlocks == 2
\* Largest length handed to createTestAccounts on its own.
MaxBatch == 47

\* The Chain objects of a test run that holds more than one.
Sessions == {1, 2}
\* The addTime calls the test code makes on one session.
Invocations == {1, 2}

\* `time` arguments of addTime, in half seconds: -1 s, 0 s, 1.5 s, 3 s.
TimeArgs == {-2, 0, 3, 6}
\* NoFrom stands for the default fromBlockTime = '' (falsy: no override).
NoFrom == -1
\* fromBlockTime arguments: none, or a block time (in half seconds).
FromArgs == {NoFrom, 1}
\* Ports Math.random can yield (the range is 100..9999).
Ports == {100, 9999}
\* `time` arguments of addTime on a fresh session, in half seconds: 3 s, 10 s.
FreshTimeArgs == {6, 20}

\* ------------------------------------------------------- program constants
maxTries == 10
ChainStartRetries == 10
SystemContractRetries == 15
TestAccountCount == 10
SettleBlocks == 2
MsPerHalfSecond == 500
MsPerSecond == 1000
SupplyUnits == 100

\* ------------------------------------------------------------------- state
VARIABLES
  \* the node instance behind the session (container + nodeos)
  node,            \* "absent" | "running" | "stopped"
  head,            \* head_block_num
  headOff,         \* clock offset (s) in force when the head block was produced
  nodeOffset,      \* last offset (s) handed to manipulateChainTime
  \* the Chain object
  sess,            \* "none" | "active" | "cleared": was a session returned
  port, config, timeAdded, accounts,
  \* control: the public operation in progress and the awaited callee
  pc, wpc, ppc, calls,
  \* locals of setupChain / waitForChainStart / waitForSystemContractInitialized
  retryCount, accountInstances,
  submitted,       \* the account-creation transactions handed to api.transact
  txFailed,        \* did an account-creation transaction fail
  \* locals of addTime
  time, fromBlockTime, elapsedBlocks, startTime, fromBlockTimeMs,
  addingTime, tries, ret,
  \* locals of waitTillNextBlock / waitTillBlock
  numBlocks, startingBlock, target, currentBlockHeight,
  \* locals of isProducingBlock
  currentHeadBlock, producing,
  \* history of the operation in progress (observations, not program state)
  ev,              \* kinds of side effect the operation made so far
  nProbes,         \* isProducingBlock calls made by the operation
  nJumps,          \* manipulateChainTime calls made by the operation
  nSleeps,         \* 1 s sleeps made by waitForChainStart
  maxJump,         \* largest offset ever handed to manipulateChainTime
  timeAddedBefore, \* timeAdded when the operation started
  err,             \* the error the operation threw, "none" if none
  secondHeadBlock, \* second sample of isProducingBlock
  reads,           \* outcome of the two reads of isProducingBlock
  \* createTestAccounts on its own: the argument, and the list each of two
  \* sessions builds for it
  length, testAccountNames,
  \* several sessions side by side
  chains,          \* the Chain object of each session and the locals of its
                   \* operation in progress
  containers,      \* the node container bound to each port
  actor,           \* the session whose operation took the last step
  \* addTime calls on one session that need not be awaited one by one
  session,         \* timeAdded of the Chain object, the offset last handed to
                   \* manipulateChainTime, and what happened so far
  invocations      \* the locals of each addTime call

nodeVars == <<node, head, headOff, nodeOffset>>
sessVars == <<sess, port, config, timeAdded, accounts>>
setupVars == <<retryCount, accountInstances, submitted, txFailed>>
addVars == <<time, fromBlockTime, elapsedBlocks, startTime, fromBlockTimeMs,
            addingTime, tries, ret>>
waitVars == <<wpc, numBlocks, startingBlock, target, currentBlockHeight>>
probeVars == <<ppc, currentHeadBlock, producing, secondHeadBlock, reads>>
histVars == <<ev, nProbes, nJumps, nSleeps, maxJump, timeAddedBefore, err>>
chainVars == <<nodeVars, sessVars, setupVars, addVars, waitVars, probeVars,
               histVars, pc, calls>>
namesVars == <<length, testAccountNames>>
sessionsVars == <<chains, containers, actor>>
overlapVars == <<session, invocations>>
auxVars == <<namesVars, sessionsVars, overlapVars>>
vars == <<chainVars, auxVars>>

\* ----------------------------------------------------------------- helpers
Max(a, b) == IF a >= b THEN a ELSE b

\* Math.floor of num/den for den > 0 (toward minus infinity).
Floor(num, den) == num \div den

NoBlock == [head_block_num |-> 0, head_block_time |-> 0]

\* head_block_time of the node: blocks are stamped 0.5 s apart, shifted by
\* the clock offset that was in force when the block was produced.
HeadBlockTime == head + 2 * headOff

\* get_info of the node.
Info == [head_block_num |-> head, head_block_time |-> HeadBlockTime]

\* An RPC query either answers or fails (connection refused, timeout, ...);
\* it can only answer while the node runs.
RpcOutcome == IF node = "running" THEN {"ok", "fail"} ELSE {"fail"}

\* The messages of the errors the session throws itself.
ErrNegative == "adding time much be greater than zero"
ErrExhausted == "Exceeded 10 tries to change the blockchain time. Test cannot proceed."
ErrChainStart == "can not get chain status"
ErrSystemContract == "can not initilize system contract"

\* blockTimeToMs: new Date(blockTime).getTime().
blockTimeToMs(blockTime) == blockTime * MsPerHalfSecond


\* ------------------------------------------------------------------- Init
ChainInit ==
  /\ node = "absent" /\ head = 0 /\ headOff = 0 /\ nodeOffset = 0
  /\ sess = "none" /\ port = 0 /\ config = [systemSetup |-> FALSE]
  /\ timeAdded = 0 /\ accounts = <<>>
  /\ pc = "none" /\ wpc = "idle" /\ ppc = "idle" /\ calls = 0
  /\ retryCount = 0 /\ accountInstances = <<>>
  /\ submitted = <<>> /\ txFailed = FALSE
  /\ time = 0 /\ fromBlockTime = NoFrom /\ fromBlockTimeMs = 0
  /\ elapsedBlocks = 0 /\ startTime = 0
  /\ addingTime = 0 /\ tries = 0 /\ ret = 0
  /\ numBlocks = 0 /\ startingBlock = NoBlock /\ target = 0
  /\ currentBlockHeight = 0
  /\ currentHeadBlock = 0 /\ producing = FALSE
  /\ secondHeadBlock = 0 /\ reads = <<"none", "none">>
  /\ ev = {} /\ nProbes = 0 /\ nJumps = 0 /\ nSleeps = 0 /\ maxJump = 0
  /\ timeAddedBefore = 0 /\ err = "none"

\* No createTestAccounts call on its own is under way.
NamesIdle == length = 0 /\ testAccountNames = <<>>

\* No Chain object and no container yet.
NoChain ==
  [pc |-> "none", port |-> 0, timeAdded |-> 0, accounts |-> <<>>,
   retryCount |-> 0, addingTime |-> 0, calls |-> 0]

NoContainer == [state |-> "absent", offset |-> 0]

SessionsInit ==
  /\ chains = [s \in Sessions |-> NoChain]
  /\ containers = [p \in Ports |-> NoContainer]
  /\ actor = 0

\* A session just set up (timeAdded = 0, manipulateChainTime never called)
\* on which no addTime call has been started.
NoInvocation ==
  [pc |-> "none", addingTime |-> 0, tries |-> 0, before |-> 0,
   sameOffset |-> TRUE]

OverlapInit ==
  /\ session = [timeAdded |-> 0, lastOffset |-> 0, exhausted |-> FALSE,
                overlapped |-> FALSE]
  /\ invocations = [c \in Invocations |-> NoInvocation]

Init == ChainInit /\ NamesIdle /\ SessionsInit /\ OverlapInit

\* ------------------------------------------------------------ environment
\* The node produces its next block, stamped with the clock offset in force.
ProduceBlock ==
  /\ node = "running"
  /\ head < MaxHead
  /\ head' = head + 1
  /\ headOff' = nodeOffset
  /\ UNCHANGED <<node, nodeOffset, sessVars, setupVars, addVars, waitVars,
                 probeVars, histVars, pc, calls>>
  /\ UNCHANGED auxVars

\* ------------------------------------------------------- isProducingBlock
\* The callee starts: headBlockNum() issues the first get_info.
StartProbe ==
  /\ ppc' = "first"
  /\ currentHeadBlock' = 0 /\ producing' = FALSE
  /\ secondHeadBlock' = 0 /\ reads' = <<"none", "none">>

ResetProbe ==
  /\ ppc' = "idle"
  /\ currentHeadBlock' = 0 /\ producing' = FALSE
  /\ secondHeadBlock' = 0 /\ reads' = <<"none", "none">>

\* Mutant: the samples are compared with >= instead of >.
ProducingResultLoose(first, second) == second - first >= 0

\* Number(second) - Number(first) > 0
ProducingResult(first, second) == second - first > 0

\* try { ... } catch (e) { return false; }: the outcome of a failed read.
ProbeCatch == "returned"

ProbeFailed(i) ==
  /\ ppc' = ProbeCatch
  /\ producing' = FALSE
  /\ reads' = [reads EXCEPT ![i] = "fail"]
  /\ UNCHANGED <<currentHeadBlock, secondHeadBlock, ev>>

\* The first head block number arrives (or the query fails); sleep(600).
ProbeFirstRead ==
  /\ ppc = "first"
  /\ \E r \in RpcOutcome :
       IF r = "ok"
       THEN /\ currentHeadBlock' = head
            /\ reads' = [reads EXCEPT ![1] = "ok"]
            /\ ev' = ev \cup {"sleep"}
            /\ ppc' = "second"
            /\ UNCHANGED <<producing, secondHeadBlock>>
       ELSE ProbeFailed(1)
  /\ UNCHANGED <<nodeVars, sessVars, setupVars, addVars, waitVars, pc, calls,
                 nProbes, nJumps, nSleeps, maxJump, timeAddedBefore, err>>
  /\ UNCHANGED auxVars

\* The second head block number arrives (or the query fails).
ProbeSecondRead ==
  /\ ppc = "second"
  /\ \E r \in RpcOutcome :
       IF r = "ok"
       THEN /\ secondHeadBlock' = head
            /\ reads' = [reads EXCEPT ![2] = "ok"]
            /\ producing' = ProducingResult(currentHeadBlock, head)
            /\ ppc' = "returned"
            /\ UNCHANGED <<currentHeadBlock, ev>>
       ELSE ProbeFailed(2)
  /\ UNCHANGED <<nodeVars, sessVars, setupVars, addVars, waitVars, pc, calls,
                 nProbes, nJumps, nSleeps, maxJump, timeAddedBefore, err>>
  /\ UNCHANGED auxVars

\* ------------------------------------- waitTillNextBlock / waitTillBlock
\* The callee starts: getInfo() issues get_info.
StartWait(n) ==
  /\ wpc' = "getInfo"
  /\ numBlocks' = n
  /\ startingBlock' = NoBlock /\ target' = 0 /\ currentBlockHeight' = 0

ResetWait ==
  /\ wpc' = "idle"
  /\ numBlocks' = 0
  /\ startingBlock' = NoBlock /\ target' = 0 /\ currentBlockHeight' = 0

\* Mutant: the polling loop gives up after its first look at the height.
WaitLoopGivesUp(height, tgt) == FALSE

\* Mutant: the polling loop stops one block early.
WaitLoopStopsEarly(height, tgt) == height + 1 < tgt

\* while (currentBlockHeight < target)
WaitLoopContinues(height, tgt) == height < tgt

\* elapsedBlocks: currentBlockHeight - Number(startingBlock.head_block_num)
ElapsedBlocks == currentBlockHeight - startingBlock.head_block_num

\* startingBlock arrives; waitTillBlock(head_block_num + numBlocks) starts
\* and issues its first headBlockNum().
WaitGetInfo ==
  /\ wpc = "getInfo"
  /\ \E r \in RpcOutcome :
       IF r = "ok"
       THEN /\ startingBlock' = Info
            /\ target' = Info.head_block_num + numBlocks
            /\ wpc' = "poll"
       ELSE /\ wpc' = "threw"
            /\ UNCHANGED <<startingBlock, target>>
  /\ UNCHANGED <<numBlocks, currentBlockHeight>>
  /\ UNCHANGED <<nodeVars, sessVars, setupVars, addVars, probeVars, histVars,
                 pc, calls>>
  /\ UNCHANGED auxVars

\* A head block number arrives in waitTillBlock: sleep(500) and poll again
\* while it is below the target, return it otherwise.
WaitPoll ==
  /\ wpc = "poll"
  /\ \E r \in RpcOutcome :
       IF r = "ok"
       THEN /\ currentBlockHeight' = head
            /\ IF WaitLoopContinues(head, target)
               THEN wpc' = "poll" /\ ev' = ev \cup {"sleep"}
               ELSE wpc' = "returned" /\ ev' = ev
       ELSE /\ wpc' = "threw"
            /\ UNCHANGED <<currentBlockHeight, ev>>
  /\ UNCHANGED <<numBlocks, startingBlock, target>>
  /\ UNCHANGED <<nodeVars, sessVars, setupVars, addVars, probeVars, pc, calls,
                 nProbes, nJumps, nSleeps, maxJump, timeAddedBefore, err>>
  /\ UNCHANGED auxVars


\* ------------------------------------------------------------- setupChain
\* public coreToken = { symbol: 'WAX', decimal: 8 }
coreToken == [symbol |-> "WAX", decimal |-> 8]

\* The decimal digit a template literal prints for d in 0..9.
DigitChar(d) == <<"0", "1", "2", "3", "4", "5", "6", "7", "8", "9">>[d + 1]

\* `${n}` of a non-negative integer: its decimal digits, most significant
\* first, one character per element.
RECURSIVE NumberToString(_)
NumberToString(n) ==
  IF n < 10 THEN <<DigitChar(n)>>
  ELSE NumberToString(n \div 10) \o <<DigitChar(n % 10)>>

\* Mutant: the group number wraps after 5, like the slot number.
TestAccountNameGroupWraps(i) ==
  <<"acc">> \o NumberToString(((i \div 5) % 5) + 1)
                    \o NumberToString((i % 5) + 1)
                    \o <<".test">>

\* Mutant: the group and slot numbers are printed zero-based.
TestAccountNameZeroBased(i) ==
  <<"acc">> \o NumberToString(i \div 5) \o NumberToString(i % 5)
                    \o <<".test">>

\* `acc${Math.floor(i/5) + 1}${Math.floor(i%5) + 1}.test`: the literal pieces
\* of the template and the digits of the two numbers, in order.
TestAccountName(i) ==
  <<"acc">> \o NumberToString((i \div 5) + 1)
                    \o NumberToString((i % 5) + 1)
                    \o <<".test">>

\* createTestAccounts(count): the names handed to createAccounts.
TestAccountNames(count) == [k \in 1..count |-> TestAccountName(k - 1)]

\* initializeTestAccounts: the names of createTestAccounts(10).
DefaultTestAccountNames == TestAccountNames(TestAccountCount)

\* supplyAmount = toAssetQuantity(100, this.coreToken): the default amount of
\* createAccounts, as the arguments of the conversion.
DefaultSupplyAmount == [amount |-> SupplyUnits, token |-> coreToken]

\* createAccount: the one transaction handed to api.transact; its four
\* actions name the account, and the transfer carries supplyAmount.
CreateAccountTransaction(account, supplyAmount) ==
  [name |-> account, quantity |-> supplyAmount]

\* Mutant: createAccounts starts the transactions of all names at once.
CreateAccountsSubmitsAll(names, k, supplyAmount) ==
  IF k = 1
  THEN [j \in 1..Len(names) |-> [name |-> names[j], quantity |-> supplyAmount]]
  ELSE <<>>

\* createAccounts: what the loop submits when it reaches the k-th name; the
\* await keeps the loop there until that transaction has completed.
CreateAccountsSubmits(names, k, supplyAmount) ==
  <<CreateAccountTransaction(names[k], supplyAmount)>>

\* Mutant: setupChain kills the container when a step after the start throws.
NodeKilledAfterSetupThrew(n) == "stopped"

\* setupChain has no try/catch/finally around its awaits: an error thrown
\* after startChainContainer leaves the node instance as it is.
NodeAfterSetupThrew(n) == n

\* Mutant: waitForChainStart gives up one retry earlier.
ChainStartGivesUpEarly(count) == count = ChainStartRetries - 1

\* if (retryCount === 10) in waitForChainStart
ChainStartGivesUp(count) == count = ChainStartRetries

\* if (retryCount === 15) in waitForSystemContractInitialized
SystemContractGivesUp(count) == count = SystemContractRetries

\* Mutant: the systemSetup flag is read inverted.
NeedsSystemContractInverted(cfg) == ~cfg.systemSetup

\* if (config.systemSetup)
NeedsSystemContract(cfg) == cfg.systemSetup

\* An operation of the test code starts: its history is empty.
FreshHistory(events) ==
  /\ ev' = events
  /\ nProbes' = 0 /\ nJumps' = 0 /\ nSleeps' = 0
  /\ timeAddedBefore' = timeAdded
  /\ err' = "none"
  /\ UNCHANGED maxJump

\* Math.random picks the port; startChainContainer and getChainIp are
\* awaited; new Chain(...) sets timeAdded = 0; waitForChainStart makes its
\* first isProducingBlock call.
SetupChain ==
  /\ pc = "none"
  /\ \E cfg \in [systemSetup : BOOLEAN], p \in Ports, started \in BOOLEAN :
       /\ port' = p
       /\ config' = cfg
       /\ IF started
          THEN /\ node' = "running"
               /\ timeAdded' = 0
               /\ retryCount' = 0
               /\ StartProbe
               /\ ev' = {"start", "rpc"}
               /\ nProbes' = 1
               /\ pc' = "waitForChainStart"
               /\ err' = "none"
          ELSE /\ pc' = "setupThrew"
               /\ err' = "startChainContainer"
               /\ ev' = {}
               /\ UNCHANGED <<node, timeAdded, retryCount, probeVars, nProbes>>
  /\ UNCHANGED <<head, headOff, nodeOffset, sess, accounts, accountInstances,
                 submitted, txFailed, addVars, waitVars, calls, nJumps,
                 nSleeps, maxJump, timeAddedBefore>>
  /\ UNCHANGED auxVars

\* initializeTestAccounts -> createTestAccounts(10) -> createAccounts: the
\* transaction of the first name is submitted.
BeginAccounts ==
  /\ accountInstances' = <<>>
  /\ submitted' = CreateAccountsSubmits(DefaultTestAccountNames, 1,
                                        DefaultSupplyAmount)
  /\ txFailed' = FALSE
  /\ retryCount' = 0
  /\ pc' = "createAccounts"

\* waitForChainStart: isProducingBlock returned true, the loop ends.  Then
\* either the first isSystemContractInitialized query or provisioning.
ChainStartConfirmed ==
  /\ pc = "waitForChainStart" /\ ppc = "returned" /\ producing
  /\ ResetProbe
  /\ IF NeedsSystemContract(config)
     THEN /\ pc' = "waitForSystemContractInitialized"
          /\ retryCount' = 0
          /\ ev' = ev \cup {"producing", "sysProbe"}
          /\ UNCHANGED <<accountInstances, submitted, txFailed>>
     ELSE /\ BeginAccounts
          /\ ev' = ev \cup {"producing", "tx"}
  /\ UNCHANGED <<nodeVars, sessVars, addVars, waitVars, calls, nProbes,
                 nJumps, nSleeps, maxJump, timeAddedBefore, err>>
  /\ UNCHANGED auxVars

\* waitForChainStart: isProducingBlock returned false; sleep(1000), count
\* the retry and probe again.
ChainStartRetry ==
  /\ pc = "waitForChainStart" /\ ppc = "returned" /\ ~producing
  /\ ~ChainStartGivesUp(retryCount)
  /\ retryCount' = retryCount + 1
  /\ nSleeps' = nSleeps + 1
  /\ StartProbe
  /\ nProbes' = nProbes + 1
  /\ ev' = ev \cup {"sleep"}
  /\ UNCHANGED <<nodeVars, sessVars, accountInstances, submitted, txFailed,
                 addVars, waitVars, pc, calls, nJumps, maxJump,
                 timeAddedBefore, err>>
  /\ UNCHANGED auxVars

\* waitForChainStart: throw new Error('can not get chain status').
ChainStartTimeout ==
  /\ pc = "waitForChainStart" /\ ppc = "returned" /\ ~producing
  /\ ChainStartGivesUp(retryCount)
  /\ nSleeps' = nSleeps + 1
  /\ ev' = ev \cup {"sleep"}
  /\ ResetProbe
  /\ pc' = "setupThrew"
  /\ err' = ErrChainStart
  /\ node' = NodeAfterSetupThrew(node)
  /\ UNCHANGED <<head, headOff, nodeOffset, sessVars, setupVars, addVars, waitVars, calls,
                 nProbes, nJumps, maxJump, timeAddedBefore>>
  /\ UNCHANGED auxVars

\* isSystemContractInitialized: get_table_rows answered with rows, with no
\* row, or failed (caught: false).
TableOutcome == IF node = "running" THEN {"rows", "empty", "fail"} ELSE {"fail"}

\* waitForSystemContractInitialized: the rammarket table has rows;
\* sleep(1000), then provisioning starts.
SystemContractConfirmed ==
  /\ pc = "waitForSystemContractInitialized"
  /\ \E r \in TableOutcome : r = "rows"
  /\ BeginAccounts
  /\ ev' = ev \cup {"systemReady", "sleep", "tx"}
  /\ UNCHANGED <<nodeVars, sessVars, addVars, waitVars, probeVars,
                 calls, nProbes, nJumps, nSleeps, maxJump, timeAddedBefore, err>>
  /\ UNCHANGED auxVars

\* waitForSystemContractInitialized: not initialized; sleep(2000), count the
\* retry and query again.
SystemContractRetry ==
  /\ pc = "waitForSystemContractInitialized"
  /\ \E r \in TableOutcome : r # "rows"
  /\ ~SystemContractGivesUp(retryCount)
  /\ retryCount' = retryCount + 1
  /\ ev' = ev \cup {"sleep"}
  /\ UNCHANGED <<nodeVars, sessVars, accountInstances, submitted, txFailed,
                 addVars, waitVars, probeVars, pc, calls, nProbes, nJumps,
                 nSleeps, maxJump, timeAddedBefore, err>>
  /\ UNCHANGED auxVars

\* waitForSystemContractInitialized: throw new Error('can not initilize
\* system contract').
SystemContractTimeout ==
  /\ pc = "waitForSystemContractInitialized"
  /\ \E r \in TableOutcome : r # "rows"
  /\ SystemContractGivesUp(retryCount)
  /\ ev' = ev \cup {"sleep"}
  /\ pc' = "setupThrew"
  /\ err' = ErrSystemContract
  /\ node' = NodeAfterSetupThrew(node)
  /\ UNCHANGED <<head, headOff, nodeOffset, sessVars, setupVars, addVars, waitVars, probeVars,
                 calls, nProbes, nJumps, nSleeps, maxJump, timeAddedBefore>>
  /\ UNCHANGED auxVars

\* createAccounts: api.transact of the account at hand succeeded; push the
\* Account and submit the next name, or, after the last one, set
\* this.accounts and return the session from setupChain.
AccountCreated ==
  /\ pc = "createAccounts"
  /\ node = "running"
  /\ LET names == DefaultTestAccountNames
         done == Append(accountInstances, names[Len(accountInstances) + 1])
     IN  IF Len(done) < Len(names)
         THEN /\ accountInstances' = done
              /\ submitted' = submitted \o
                   CreateAccountsSubmits(names, Len(done) + 1,
                                         DefaultSupplyAmount)
              /\ UNCHANGED <<pc, sess, accounts>>
         ELSE /\ accounts' = done
              /\ accountInstances' = <<>>
              /\ sess' = "active"
              /\ pc' = "idle"
              /\ UNCHANGED submitted
  /\ UNCHANGED <<nodeVars, port, config, timeAdded, retryCount, txFailed, addVars,
                 waitVars, probeVars, calls, histVars>>
  /\ UNCHANGED auxVars

\* createAccount: api.transact failed; the error leaves createAccounts,
\* initializeTestAccounts and setupChain.
AccountFailed ==
  /\ pc = "createAccounts"
  /\ pc' = "setupThrew"
  /\ err' = "transact"
  /\ txFailed' = TRUE
  /\ node' = NodeAfterSetupThrew(node)
  /\ UNCHANGED <<head, headOff, nodeOffset, sessVars, retryCount, accountInstances, submitted,
                 addVars, waitVars, probeVars,
                 calls, ev, nProbes, nJumps, nSleeps, maxJump, timeAddedBefore>>
  /\ UNCHANGED auxVars


\* ------------------------------------------------- operations of a session
\* The test code awaits each operation before it starts the next one.
Idle ==
  /\ sess = "active"
  /\ \/ pc \in {"idle", "addTimeReturned", "addTimeThrew"}
     \/ pc = "waitTillNextBlock" /\ wpc \in {"returned", "threw"}
     \/ pc = "isProducingBlock" /\ ppc \in {"returned", "threw"}

CanCall == Idle /\ calls < MaxCalls

ResetAddTime ==
  /\ time' = 0 /\ fromBlockTime' = NoFrom /\ fromBlockTimeMs' = 0
  /\ elapsedBlocks' = 0 /\ startTime' = 0
  /\ addingTime' = 0 /\ tries' = 0 /\ ret' = 0

\* clear(): killExistingChainContainer(this.port).
Clear ==
  /\ Idle
  /\ node' = "stopped"
  /\ sess' = "cleared"
  /\ pc' = "cleared"
  /\ ResetAddTime /\ ResetWait /\ ResetProbe
  /\ FreshHistory({"stop"})
  /\ UNCHANGED <<head, headOff, nodeOffset, port, config, timeAdded, accounts,
                 setupVars, calls>>
  /\ UNCHANGED auxVars

\* The test code calls waitTillNextBlock(n).
WaitTillNextBlock ==
  /\ CanCall
  /\ \E n \in 1..MaxNumBlocks : StartWait(n)
  /\ pc' = "waitTillNextBlock"
  /\ calls' = calls + 1
  /\ ResetAddTime /\ ResetProbe
  /\ FreshHistory({"rpc"})
  /\ UNCHANGED <<nodeVars, sessVars, setupVars>>
  /\ UNCHANGED auxVars

\* The test code calls isProducingBlock().
IsProducingBlock ==
  /\ CanCall
  /\ StartProbe
  /\ pc' = "isProducingBlock"
  /\ calls' = calls + 1
  /\ ResetAddTime /\ ResetWait
  /\ ev' = {"rpc"}
  /\ nProbes' = 1 /\ nJumps' = 0 /\ nSleeps' = 0
  /\ timeAddedBefore' = timeAdded /\ err' = "none"
  /\ UNCHANGED <<nodeVars, sessVars, setupVars, maxJump>>
  /\ UNCHANGED auxVars

\* ---------------------------------------------------------------- addTime
\* Mutant: the check for a negative argument is missing.
NegativeTimeUnchecked(t) == FALSE

\* if (time < 0)
NegativeTime(t) == t < 0

\* Mutant: a settled block is counted as a whole second instead of half.
AddingTimeBlocksAsSeconds(t, from, start, elapsed) ==
  IF from # NoFrom
  THEN Floor(Max(0, t * MsPerHalfSecond - (start - (from * MsPerHalfSecond))
                      - elapsed * MsPerSecond), MsPerSecond)
  ELSE Floor(Max(0, t * MsPerHalfSecond - elapsed * MsPerSecond), MsPerSecond)

\* Mutant: the result is not clamped at zero (Math.max(0, ...) is missing).
AddingTimeUnclamped(t, from, start, elapsed) ==
  IF from # NoFrom
  THEN Floor(t * MsPerHalfSecond - (start - (from * MsPerHalfSecond))
               - elapsed * MsPerHalfSecond, MsPerSecond)
  ELSE Floor(t * MsPerHalfSecond - elapsed * MsPerHalfSecond, MsPerSecond)

\* addingTime (s): Math.floor(Math.max(0, time - elapsedBlocks * 0.5)), or,
\* with an override, Math.floor(Math.max(0, time - (startTime -
\* fromBlockTimeMs) / 1000 - elapsedBlocks * 0.5)); computed in milliseconds.
AddingTime(t, from, start, elapsed) ==
  IF from # NoFrom
  THEN Floor(Max(0, t * MsPerHalfSecond - (start - blockTimeToMs(from))
                      - elapsed * MsPerHalfSecond), MsPerSecond)
  ELSE Floor(Max(0, t * MsPerHalfSecond - elapsed * MsPerHalfSecond),
             MsPerSecond)

\* Mutant: the early return tests addingTime < 0.
NothingToAddNegative(a) == a < 0

\* if (addingTime === 0) return 0
NothingToAdd(a) == a = 0

\* Mutant: the retry ceiling is tested with > instead of >=.
TriesExhaustedLate(n) == n > maxTries

\* if (tries >= maxTries)
TriesExhausted(n) == n >= maxTries

\* Mutant: the loop ends after one turn whatever isProducingBlock returned.
LoopAgainNever(isProducing) == FALSE

\* } while (!(await this.isProducingBlock()))
LoopAgain(isProducing) == ~isProducing

\* Mutant: the offset of this call alone is handed to manipulateChainTime.
JumpArgumentRelative(added, adding) == adding

\* this.timeAdded + addingTime, the second argument of manipulateChainTime.
JumpArgument(added, adding) == added + adding

\* The absolute offset handed to manipulateChainTime.
JumpOffset == JumpArgument(timeAdded, addingTime')

\* manipulateChainTime(this.port, offset); tries++; sleep(1000); the
\* isProducingBlock call of the loop condition starts.
JumpAndProbe(offset) ==
  /\ nodeOffset' = offset
  /\ maxJump' = Max(maxJump, offset)
  /\ nJumps' = nJumps + 1
  /\ tries' = tries + 1
  /\ StartProbe
  /\ nProbes' = nProbes + 1
  /\ ev' = ev \cup {"jump", "sleep", "rpc"}

\* addTime(time, fromBlockTime) with time < 0: the throw of line 231.
AddTimeNegative ==
  /\ CanCall
  /\ \E t \in TimeArgs, f \in FromArgs :
       /\ NegativeTime(t)
       /\ time' = t /\ fromBlockTime' = f
  /\ elapsedBlocks' = 0 /\ startTime' = 0
  /\ fromBlockTimeMs' = 0 /\ addingTime' = 0 /\ tries' = 0 /\ ret' = 0
  /\ pc' = "addTimeThrew"
  /\ calls' = calls + 1
  /\ ResetWait /\ ResetProbe
  /\ ev' = {} /\ nProbes' = 0 /\ nJumps' = 0 /\ nSleeps' = 0
  /\ timeAddedBefore' = timeAdded
  /\ err' = ErrNegative
  /\ UNCHANGED <<nodeVars, sessVars, setupVars, maxJump>>
  /\ UNCHANGED auxVars

\* addTime(time, fromBlockTime) otherwise: waitTillNextBlock(2) starts.
AddTimeCallWith(times, froms) ==
  /\ CanCall
  /\ \E t \in times, f \in froms :
       /\ ~NegativeTime(t)
       /\ time' = t /\ fromBlockTime' = f
  /\ elapsedBlocks' = 0 /\ startTime' = 0
  /\ fromBlockTimeMs' = 0 /\ addingTime' = 0 /\ tries' = 0 /\ ret' = 0
  /\ StartWait(SettleBlocks)
  /\ pc' = "settle1"
  /\ calls' = calls + 1
  /\ ResetProbe
  /\ FreshHistory({"rpc"})
  /\ UNCHANGED <<nodeVars, sessVars, setupVars>>
  /\ UNCHANGED auxVars

AddTimeCall == AddTimeCallWith(TimeArgs, FromArgs)

\* A settle wait threw (an RPC query of it failed): the error leaves addTime.
AddTimeWaitThrew ==
  /\ pc \in {"settle1", "settle2"} /\ wpc = "threw"
  /\ pc' = "addTimeThrew"
  /\ err' = "rpc"
  /\ ResetWait
  /\ UNCHANGED <<nodeVars, sessVars, setupVars, addVars, probeVars, calls,
                 ev, nProbes, nJumps, nSleeps, maxJump, timeAddedBefore>>
  /\ UNCHANGED auxVars

\* startTime, fromBlockTimeMs and addingTime after the first settle wait.
StartTime == blockTimeToMs(startingBlock.head_block_time)
FromBlockTimeMs ==
  IF fromBlockTime # NoFrom THEN blockTimeToMs(fromBlockTime) ELSE StartTime
ComputedAddingTime ==
  AddingTime(time, fromBlockTime, StartTime, ElapsedBlocks)

\* The first settle wait returned and addingTime is 0: return 0.
AddTimeReturnsZero ==
  /\ pc = "settle1" /\ wpc = "returned"
  /\ NothingToAdd(ComputedAddingTime)
  /\ elapsedBlocks' = ElapsedBlocks
  /\ startTime' = StartTime
  /\ fromBlockTimeMs' = FromBlockTimeMs
  /\ addingTime' = ComputedAddingTime
  /\ ret' = 0
  /\ pc' = "addTimeReturned"
  /\ ResetWait
  /\ UNCHANGED <<nodeVars, sessVars, setupVars, time, fromBlockTime, tries,
                 probeVars, calls, histVars>>
  /\ UNCHANGED auxVars

\* The first settle wait returned and addingTime is not 0: the first turn of
\* the do-while loop.
AddTimeFirstJump ==
  /\ pc = "settle1" /\ wpc = "returned"
  /\ ~NothingToAdd(ComputedAddingTime)
  /\ elapsedBlocks' = ElapsedBlocks
  /\ startTime' = StartTime
  /\ fromBlockTimeMs' = FromBlockTimeMs
  /\ addingTime' = ComputedAddingTime
  /\ JumpAndProbe(JumpOffset)
  /\ pc' = "retry"
  /\ ResetWait
  /\ UNCHANGED <<node, head, headOff, sessVars, setupVars, time,
                 fromBlockTime, ret, calls, nSleeps, timeAddedBefore, err>>
  /\ UNCHANGED auxVars

\* isProducingBlock returned false and tries are left: the next turn.
AddTimeRetry ==
  /\ pc = "retry" /\ ppc = "returned" /\ LoopAgain(producing)
  /\ ~TriesExhausted(tries)
  /\ UNCHANGED addingTime
  /\ JumpAndProbe(JumpOffset)
  /\ UNCHANGED <<node, head, headOff, sessVars, setupVars, time,
                 fromBlockTime, elapsedBlocks, startTime, fromBlockTimeMs,
                 ret, waitVars, pc, calls, nSleeps, timeAddedBefore, err>>
  /\ UNCHANGED auxVars

\* isProducingBlock returned false and no try is left: the throw of line 255.
AddTimeExhausted ==
  /\ pc = "retry" /\ ppc = "returned" /\ LoopAgain(producing)
  /\ TriesExhausted(tries)
  /\ pc' = "addTimeThrew"
  /\ err' = ErrExhausted
  /\ ResetProbe
  /\ UNCHANGED <<nodeVars, sessVars, setupVars, addVars, waitVars, calls,
                 ev, nProbes, nJumps, nSleeps, maxJump, timeAddedBefore>>
  /\ UNCHANGED auxVars

\* isProducingBlock returned true: this.timeAdded += addingTime, and the
\* second waitTillNextBlock(2) starts.
AddTimeCommit ==
  /\ pc = "retry" /\ ppc = "returned" /\ ~LoopAgain(producing)
  /\ timeAdded' = timeAdded + addingTime
  /\ StartWait(SettleBlocks)
  /\ pc' = "settle2"
  /\ ResetProbe
  /\ UNCHANGED <<nodeVars, sess, port, config, accounts, setupVars, addVars,
                 calls, histVars>>
  /\ UNCHANGED auxVars

\* The second settle wait returned; getInfo() answers and addTime returns
\* endTime - fromBlockTimeMs, or getInfo() fails.
AddTimeReturn ==
  /\ pc = "settle2" /\ wpc = "returned"
  /\ \E r \in RpcOutcome :
       IF r = "ok"
       THEN /\ ret' = blockTimeToMs(Info.head_block_time) - fromBlockTimeMs
            /\ pc' = "addTimeReturned"
            /\ err' = "none"
       ELSE /\ pc' = "addTimeThrew"
            /\ err' = "rpc"
            /\ ret' = ret
  /\ ResetWait
  /\ UNCHANGED <<nodeVars, sessVars, setupVars, time, fromBlockTime,
                 elapsedBlocks, startTime, fromBlockTimeMs, addingTime, tries,
                 probeVars, calls, ev, nProbes, nJumps, nSleeps, maxJump,
                 timeAddedBefore>>
  /\ UNCHANGED auxVars

\* ------------------------------------------------------------------- Spec
Next ==
  \/ ProduceBlock
  \/ ProbeFirstRead \/ ProbeSecondRead
  \/ WaitGetInfo \/ WaitPoll
  \/ SetupChain
  \/ ChainStartConfirmed \/ ChainStartRetry \/ ChainStartTimeout
  \/ SystemContractConfirmed \/ SystemContractRetry \/ SystemContractTimeout
  \/ AccountCreated \/ AccountFailed
  \/ Clear \/ WaitTillNextBlock \/ IsProducingBlock
  \/ AddTimeNegative \/ AddTimeCall \/ AddTimeWaitThrew
  \/ AddTimeReturnsZero \/ AddTimeFirstJump
  \/ AddTimeRetry \/ AddTimeExhausted \/ AddTimeCommit \/ AddTimeReturn

Spec == Init /\ [][Next]_vars


\* ------------------------------------------ addTime on a fresh session
\* The state in which setupChain({ systemSetup: false }) returns a session
\* when every step of it succeeded at once: the node produces blocks, the
\* ten default accounts exist and timeAdded is 0.
FreshSession ==
  /\ node = "running" /\ head = 1 /\ headOff = 0 /\ nodeOffset = 0
  /\ sess = "active" /\ port = 100 /\ config = [systemSetup |-> FALSE]
  /\ timeAdded = 0 /\ accounts = DefaultTestAccountNames
  /\ pc = "idle" /\ wpc = "idle" /\ ppc = "idle" /\ calls = 0
  /\ retryCount = 0 /\ accountInstances = <<>>
  /\ submitted = [k \in 1..TestAccountCount |->
                    CreateAccountTransaction(accounts[k], DefaultSupplyAmount)]
  /\ txFailed = FALSE
  /\ time = 0 /\ fromBlockTime = NoFrom /\ fromBlockTimeMs = 0
  /\ elapsedBlocks = 0 /\ startTime = 0
  /\ addingTime = 0 /\ tries = 0 /\ ret = 0
  /\ numBlocks = 0 /\ startingBlock = NoBlock /\ target = 0
  /\ currentBlockHeight = 0
  /\ currentHeadBlock = 0 /\ producing = FALSE
  /\ secondHeadBlock = 0 /\ reads = <<"none", "none">>
  /\ ev = {"start", "rpc", "sleep", "producing", "tx"}
  /\ nProbes = 1 /\ nJumps = 0 /\ nSleeps = 0 /\ maxJump = 0
  /\ timeAddedBefore = 0 /\ err = "none"

\* The test code calls addTime(3) or addTime(10), with no override.
AddTimeFresh == AddTimeCallWith(FreshTimeArgs, {NoFrom})

InitFresh == FreshSession /\ NamesIdle /\ SessionsInit /\ OverlapInit

NextFresh ==
  \/ ProduceBlock
  \/ ProbeFirstRead \/ ProbeSecondRead
  \/ WaitGetInfo \/ WaitPoll
  \/ AddTimeFresh \/ AddTimeWaitThrew
  \/ AddTimeReturnsZero \/ AddTimeFirstJump
  \/ AddTimeRetry \/ AddTimeExhausted \/ AddTimeCommit \/ AddTimeReturn

SpecFresh == InitFresh /\ [][NextFresh]_vars

\* -------------------------------------------- one addTime call, scheduled
\* The test code calls addTime once on the fresh session.
AddTimeOnce == calls = 0 /\ AddTimeFresh

\* A step of the call that the event loop takes once the awaited promise
\* has settled; an RPC query may fail, but a poll of waitTillBlock is not
\* bound to.
AddTimeStep ==
  \/ ProbeFirstRead \/ ProbeSecondRead
  \/ WaitGetInfo
  \/ WaitPoll /\ wpc' # "threw"
  \/ AddTimeWaitThrew
  \/ AddTimeReturnsZero \/ AddTimeFirstJump
  \/ AddTimeRetry \/ AddTimeExhausted \/ AddTimeCommit \/ AddTimeReturn

NextOnce ==
  \/ ProduceBlock
  \/ ProbeFirstRead \/ ProbeSecondRead
  \/ WaitGetInfo \/ WaitPoll
  \/ AddTimeOnce \/ AddTimeWaitThrew
  \/ AddTimeReturnsZero \/ AddTimeFirstJump
  \/ AddTimeRetry \/ AddTimeExhausted \/ AddTimeCommit \/ AddTimeReturn

\* The node produces blocks as long as it can (up to MaxHead) and every
\* settled await is resumed.
SpecFair ==
  /\ InitFresh
  /\ [][NextOnce]_vars
  /\ WF_vars(ProduceBlock)
  /\ WF_vars(AddTimeStep)


\* ------------------------------------------- createTestAccounts on its own
\* createTestAccounts(length) is called with the same length on each session;
\* testAccountNames starts empty.
NamesInit ==
  /\ length \in 0..MaxBatch
  /\ testAccountNames = [s \in Sessions |-> <<>>]

\* One turn of the loop of session s: i is the number of names pushed so
\* far; while i < length the name of i is pushed.
PushTestAccountName(s) ==
  LET i == Len(testAccountNames[s])
  IN  /\ i < length
      /\ testAccountNames' =
           [testAccountNames EXCEPT ![s] = Append(@, TestAccountName(i))]
      /\ UNCHANGED length

CreateTestAccountsStep ==
  /\ \E s \in Sessions : PushTestAccountName(s)
  /\ UNCHANGED <<chainVars, sessionsVars, overlapVars>>

InitNames == ChainInit /\ NamesInit /\ SessionsInit /\ OverlapInit

NextNames == CreateTestAccountsStep

SpecNames == InitNames /\ [][NextNames]_vars


\* ------------------------------------------------- sessions side by side
\* Offsets (s) an addTime call of a session computes as its addingTime.
SessionOffsets == {1, 2}

\* startChainContainer(port) resolves when the port is free and rejects
\* when a running container is bound to it (a port collision).
StartChainContainerSucceeds(cts, p) == cts[p].state # "running"

\* Mutant: setupChain goes on although startChainContainer rejected.
SetupProceedsAnyway(started) == TRUE

\* await startChainContainer(port): a rejection leaves setupChain at once.
SetupProceeds(started) == started

\* Mutant: timeAdded is one static field shared by every Chain object.
CommitTimeAddedStatic(cs, s, adding) ==
  [t \in DOMAIN cs |-> [cs[t] EXCEPT !.timeAdded = @ + adding]]

\* this.timeAdded += addingTime: the field of this Chain object.
CommitTimeAdded(cs, s, adding) == [cs EXCEPT ![s].timeAdded = @ + adding]

\* A session that has been set up and not torn down by clear().
Active(s) == chains[s].pc \in {"idle", "jump", "commit"}

\* setupChain of session s up to new Chain(...): the port is drawn, the
\* container is started; waitForChainStart makes its first probe.
SessionSetup ==
  \E s \in Sessions, p \in Ports :
    /\ chains[s].pc = "none"
    /\ IF SetupProceeds(StartChainContainerSucceeds(containers, p))
       THEN /\ chains' = [chains EXCEPT ![s] =
                           [NoChain EXCEPT !.pc = "waitForChainStart",
                                           !.port = p]]
            /\ containers' = [containers EXCEPT ![p].state = "running"]
       ELSE /\ chains' = [chains EXCEPT ![s].pc = "setupThrew"]
            /\ UNCHANGED containers
    /\ actor' = s
    /\ UNCHANGED <<chainVars, namesVars, overlapVars>>

\* waitForChainStart of session s: not producing yet; its own retryCount.
SessionChainStartRetry ==
  \E s \in Sessions :
    /\ chains[s].pc = "waitForChainStart"
    /\ ~ChainStartGivesUp(chains[s].retryCount)
    /\ chains' = [chains EXCEPT ![s].retryCount = @ + 1]
    /\ actor' = s
    /\ UNCHANGED <<containers, chainVars, namesVars, overlapVars>>

\* waitForChainStart of session s throws; its container stays.
SessionChainStartTimeout ==
  \E s \in Sessions :
    /\ chains[s].pc = "waitForChainStart"
    /\ ChainStartGivesUp(chains[s].retryCount)
    /\ chains' = [chains EXCEPT ![s].pc = "setupThrew"]
    /\ actor' = s
    /\ UNCHANGED <<containers, chainVars, namesVars, overlapVars>>

\* waitForChainStart of session s ends and initializeTestAccounts sets
\* this.accounts; setupChain returns the Chain object.
SessionProvisioned ==
  \E s \in Sessions :
    /\ chains[s].pc = "waitForChainStart"
    /\ containers[chains[s].port].state = "running"
    /\ chains' = [chains EXCEPT
                    ![s].pc = "idle",
                    ![s].retryCount = 0,
                    ![s].accounts = DefaultTestAccountNames]
    /\ actor' = s
    /\ UNCHANGED <<containers, chainVars, namesVars, overlapVars>>

\* addTime on session s: the settle wait is over and addingTime is computed.
SessionAddTime ==
  \E s \in Sessions, a \in SessionOffsets :
    /\ chains[s].pc = "idle"
    /\ chains[s].calls < MaxCalls
    /\ chains' = [chains EXCEPT ![s].pc = "jump",
                                ![s].addingTime = a,
                                ![s].calls = @ + 1]
    /\ actor' = s
    /\ UNCHANGED <<containers, chainVars, namesVars, overlapVars>>

\* manipulateChainTime(this.port, this.timeAdded + addingTime) of session s.
SessionJump ==
  \E s \in Sessions :
    /\ chains[s].pc = "jump"
    /\ containers' = [containers EXCEPT ![chains[s].port].offset =
                         chains[s].timeAdded + chains[s].addingTime]
    /\ chains' = [chains EXCEPT ![s].pc = "commit"]
    /\ actor' = s
    /\ UNCHANGED <<chainVars, namesVars, overlapVars>>

\* this.timeAdded += addingTime of session s; addTime returns.
SessionCommit ==
  \E s \in Sessions :
    /\ chains[s].pc = "commit"
    /\ chains' = [CommitTimeAdded(chains, s, chains[s].addingTime)
                    EXCEPT ![s].pc = "idle", ![s].addingTime = 0]
    /\ actor' = s
    /\ UNCHANGED <<containers, chainVars, namesVars, overlapVars>>

\* clear() of session s: killExistingChainContainer(this.port).
SessionClear ==
  \E s \in Sessions :
    /\ chains[s].pc = "idle"
    /\ containers' = [containers EXCEPT ![chains[s].port] =
                         [state |-> "stopped", offset |-> 0]]
    /\ chains' = [chains EXCEPT ![s].pc = "cleared"]
    /\ actor' = s
    /\ UNCHANGED <<chainVars, namesVars, overlapVars>>

InitSessions == ChainInit /\ NamesIdle /\ SessionsInit /\ OverlapInit

NextSessions ==
  \/ SessionSetup
  \/ SessionChainStartRetry \/ SessionChainStartTimeout
  \/ SessionProvisioned
  \/ SessionAddTime \/ SessionJump \/ SessionCommit
  \/ SessionClear

SpecSessions == InitSessions /\ [][NextSessions]_vars


\* ------------------------------------------- addTime calls that may overlap
\* An addTime call is between its first settle wait and its return or throw.
InProgress(c) == invocations[c].pc \in {"jump", "probe", "commit"}

\* addTime call c: the first settle wait is over, addingTime is computed
\* and not 0.  The test code may or may not have awaited the other call.
OverlapAddTime ==
  \E c \in Invocations, a \in SessionOffsets :
    /\ invocations[c].pc = "none"
    /\ invocations' = [invocations EXCEPT ![c] =
                         [NoInvocation EXCEPT !.pc = "jump",
                                              !.addingTime = a,
                                              !.before = session.timeAdded]]
    /\ session' = [session EXCEPT !.overlapped =
                     @ \/ \E d \in Invocations : InProgress(d)]
    /\ UNCHANGED <<chainVars, namesVars, sessionsVars>>

\* Call c: manipulateChainTime(port, this.timeAdded + addingTime); tries++.
OverlapJump ==
  \E c \in Invocations :
    LET offset == JumpArgument(session.timeAdded, invocations[c].addingTime)
    IN  /\ invocations[c].pc = "jump"
        /\ ~TriesExhausted(invocations[c].tries)
        /\ session' = [session EXCEPT !.lastOffset = offset]
        /\ invocations' = [invocations EXCEPT
              ![c].pc = "probe",
              ![c].tries = @ + 1,
              ![c].sameOffset =
                 @ /\ offset = invocations[c].before + invocations[c].addingTime]
        /\ UNCHANGED <<chainVars, namesVars, sessionsVars>>

\* Call c: isProducingBlock() returned; the loop goes on or ends.
OverlapProbe ==
  \E c \in Invocations, isProducing \in BOOLEAN :
    /\ invocations[c].pc = "probe"
    /\ invocations' = [invocations EXCEPT ![c].pc =
                         IF LoopAgain(isProducing) THEN "jump" ELSE "commit"]
    /\ UNCHANGED <<session, chainVars, namesVars, sessionsVars>>

\* Call c: tries >= maxTries, the call throws.
OverlapExhausted ==
  \E c \in Invocations :
    /\ invocations[c].pc = "jump"
    /\ TriesExhausted(invocations[c].tries)
    /\ invocations' = [invocations EXCEPT ![c].pc = "threw"]
    /\ session' = [session EXCEPT !.exhausted = TRUE]
    /\ UNCHANGED <<chainVars, namesVars, sessionsVars>>

\* Call c: this.timeAdded += addingTime; the call returns after its second
\* settle wait.
OverlapCommit ==
  \E c \in Invocations :
    /\ invocations[c].pc = "commit"
    /\ session' = [session EXCEPT !.timeAdded = @ + invocations[c].addingTime]
    /\ invocations' = [invocations EXCEPT ![c].pc = "returned"]
    /\ UNCHANGED <<chainVars, namesVars, sessionsVars>>

InitOverlap == ChainInit /\ NamesIdle /\ SessionsInit /\ OverlapInit

NextOverlap ==
  \/ OverlapAddTime
  \/ OverlapJump \/ OverlapProbe \/ OverlapExhausted
  \/ OverlapCommit

SpecOverlap == InitOverlap /\ [][NextOverlap]_vars


\* ----------------------------------------------------------------- claims
InAddTime ==
  pc \in {"settle1", "retry", "settle2", "addTimeReturned", "addTimeThrew"}

\* C1: addTime with a negative argument throws before anything else: the
\* call ends in the invalid-argument error, timeAdded is what it was when the
\* call started, and the call made no RPC query, no sleep and no
\* manipulateChainTime call.
C1_NegativeTimeRejectedFirst ==
  (InAddTime /\ time < 0) =>
    /\ pc = "addTimeThrew" /\ err = ErrNegative
    /\ timeAdded = timeAddedBefore
    /\ ev = {} /\ nJumps = 0 /\ nProbes = 0
    /\ wpc = "idle" /\ ppc = "idle"

\* C1 witness: a negative addTime was rejected on a session whose offset an
\* earlier call had raised.
C1_Witness ==
  pc = "addTimeThrew" /\ time < 0 /\ err = ErrNegative /\ timeAdded > 0

\* C2: in every step of a session timeAdded is >= 0 and does not decrease.
C2_TimeAddedNeverDecreases ==
  [][timeAdded >= 0 /\ timeAdded' >= timeAdded]_vars

\* C2 witness: two addTime calls in a row each raised timeAdded.
C2_Witness ==
  pc = "addTimeReturned" /\ timeAddedBefore > 0 /\ timeAdded > timeAddedBefore

\* C3 (as claimed): the offset most recently handed to manipulateChainTime
\* is the largest one handed to it so far in the session.
C3_JumpOffsetsNeverDecrease == nodeOffset >= maxJump

\* C4 (as claimed): without an override, an addTime call that returns
\* normally returns at least 1000 ms per requested second.
C4_ReturnsAtLeastRequested ==
  (pc = "addTimeReturned" /\ fromBlockTime = NoFrom) =>
    ret >= time * MsPerHalfSecond

\* C5: one addTime call invokes manipulateChainTime at most 10 times; when
\* isProducingBlock is false after the 10th invocation the call throws the
\* fatal error, having made exactly 10 invocations, and timeAdded is what it
\* was when the call started.
C5_AtMostTenJumps ==
  /\ nJumps <= maxTries
  /\ (pc = "retry" /\ ppc = "returned" /\ ~producing /\ nJumps = maxTries)
       => TriesExhausted(tries)
  /\ (pc = "addTimeThrew" /\ err = ErrExhausted) =>
       /\ nJumps = maxTries /\ nProbes = maxTries
       /\ timeAdded = timeAddedBefore

\* C5 witness: an addTime call gave up after its 10th jump, on a session
\* whose offset an earlier call had raised.
C5_Witness ==
  pc = "addTimeThrew" /\ err = ErrExhausted /\ nJumps = maxTries
  /\ timeAdded > 0

\* C6: when the offset addTime computed (floor of max(0, requested - 0.5 s
\* per elapsed block - gap to the override)) is 0, the call returns 0, makes
\* no manipulateChainTime call and leaves timeAdded as it was.
C6_ZeroOffsetReturnsZero ==
  ( /\ pc \in {"retry", "settle2", "addTimeReturned"}
    /\ AddingTime(time, fromBlockTime, startTime, elapsedBlocks) = 0 ) =>
    /\ pc = "addTimeReturned" /\ ret = 0
    /\ nJumps = 0 /\ "jump" \notin ev
    /\ timeAdded = timeAddedBefore

\* C6 witness: addTime with a positive argument returned 0 because the
\* settle wait had already used the requested time up.
C6_Witness ==
  pc = "addTimeReturned" /\ time > 0 /\ addingTime = 0 /\ ret = 0
  /\ elapsedBlocks >= SettleBlocks

\* C7: when waitTillNextBlock(n) returns, the last observed head block
\* number is at least the snapshot's number plus n, and elapsedBlocks, the
\* last observed number minus the snapshot's, is >= n.
C7_WaitReachesTarget ==
  wpc = "returned" =>
    /\ currentBlockHeight >= startingBlock.head_block_num + numBlocks
    /\ ElapsedBlocks >= numBlocks
    /\ currentBlockHeight <= head

\* C7 witness: a waitTillNextBlock(2) call of the test code returned having
\* seen more than 2 blocks go by.
C7_Witness ==
  pc = "waitTillNextBlock" /\ wpc = "returned" /\ numBlocks = 2
  /\ ElapsedBlocks > numBlocks

\* C8: isProducingBlock never throws; it returns false when one of its two
\* reads failed, and otherwise true exactly when the two samples differ.
C8_ProbeNeverThrows ==
  /\ ppc # "threw"
  /\ ppc = "returned" =>
       producing = (reads = <<"ok", "ok">> /\ secondHeadBlock # currentHeadBlock)

\* C8 witness: isProducingBlock returned false because its second read
\* failed after the first had answered.
C8_Witness ==
  ppc = "returned" /\ reads = <<"ok", "fail">> /\ ~producing

\* C9 (as claimed): setupChain gives up on the chain start after 10
\* isProducingBlock attempts.
C9_TenProbesThenFatal ==
  (pc = "setupThrew" /\ err = ErrChainStart) => nProbes = ChainStartRetries

\* C9 (amended): setupChain gives up on the chain start after 11
\* isProducingBlock attempts (the first and 10 retries), each followed by a
\* 1 s sleep; no account transaction was submitted and no session returned.
C9_ElevenProbesThenFatal ==
  /\ pc = "waitForChainStart" => nProbes <= ChainStartRetries + 1
  /\ (pc = "setupThrew" /\ err = ErrChainStart) =>
       /\ nProbes = ChainStartRetries + 1
       /\ nSleeps = ChainStartRetries + 1
       /\ "tx" \notin ev /\ accountInstances = <<>> /\ accounts = <<>>
       /\ sess = "none"

\* C9 witness: setupChain failed on the chain start of a started node.
C9_Witness ==
  pc = "setupThrew" /\ err = ErrChainStart /\ node = "running"

\* C10: setupChain keeps its order: probes only on a started node, the
\* system-contract wait only once production is confirmed and only when
\* config.systemSetup is set, the first account transaction only after
\* production and (exactly when configured) the system contract were
\* confirmed, and a session only with all 10 accounts provisioned.
C10_SetupOrder ==
  /\ (pc \notin {"none", "setupThrew"} \/ nProbes > 0) =>
       ("start" \in ev \/ sess # "none") /\ node # "absent"
  /\ "rpc" \in ev => node # "absent"
  /\ "sysProbe" \in ev => "producing" \in ev /\ config.systemSetup
  /\ "systemReady" \in ev => "sysProbe" \in ev
  /\ "tx" \in ev =>
       /\ "producing" \in ev
       /\ config.systemSetup <=> "systemReady" \in ev
  /\ pc = "createAccounts" => "tx" \in ev
  /\ sess # "none" =>
       /\ Len(accounts) = TestAccountCount
       /\ accounts = DefaultTestAccountNames
  /\ pc = "idle" => "tx" \in ev /\ sess = "active"

\* C10 witness: a session was returned by a setup that waited for the
\* system contract.
C10_Witness ==
  pc = "idle" /\ sess = "active" /\ config.systemSetup
  /\ {"start", "producing", "systemReady", "tx"} \subseteq ev

\* C11: account provisioning is sequential and aborts on the first failure.
\* The transactions are submitted in the order of the names; while
\* provisioning runs exactly one transaction beyond the completed ones has
\* been submitted, so at most one is in flight and the k+1-th is submitted
\* only after the k-th has succeeded; after a failed transaction nothing
\* further is submitted, accounts is not set, no session is returned and
\* setupChain has thrown.
Provisioned == IF sess = "none" THEN accountInstances ELSE accounts

InFlight == Len(submitted) - Len(Provisioned) - (IF txFailed THEN 1 ELSE 0)

C11_SequentialProvisioning ==
  /\ InFlight \in {0, 1}
  /\ \A k \in 1..Len(submitted) :
       submitted[k].name = DefaultTestAccountNames[k]
  /\ \A k \in 1..Len(Provisioned) : Provisioned[k] = submitted[k].name
  /\ pc = "createAccounts" => InFlight = 1
  /\ txFailed =>
       /\ pc = "setupThrew" /\ err = "transact"
       /\ sess = "none" /\ accounts = <<>>
       /\ Len(submitted) = Len(accountInstances) + 1

C11_Witness ==
  /\ txFailed
  /\ Len(accountInstances) = 3
  /\ Len(submitted) = 4
  /\ pc = "setupThrew"

\* C13: the default batch.  The names <prefix>11.test .. <prefix>25.test:
\* group digit 1..2, then slot digit 1..5, then the suffix.
GroupDigits == <<"1", "1", "1", "1", "1", "2", "2", "2", "2", "2">>

SlotDigits == <<"1", "2", "3", "4", "5", "1", "2", "3", "4", "5">>

BatchNames(prefix) ==
  [k \in 1..Len(GroupDigits) |->
     prefix \o <<GroupDigits[k], SlotDigits[k]>> \o <<".test">>]

HundredUnits == [amount |-> 100, token |-> [symbol |-> "WAX", decimal |-> 8]]

BatchTransactions(prefix) ==
  [k \in 1..Len(GroupDigits) |->
     [name |-> BatchNames(prefix)[k], quantity |-> HundredUnits]]

BatchA == [names |-> BatchNames(<<"a">>),
           transactions |-> BatchTransactions(<<"a">>)]

BatchAcc == [names |-> BatchNames(<<"acc">>),
             transactions |-> BatchTransactions(<<"acc">>)]

DefaultBatch(batch) ==
  sess # "none" =>
    /\ accounts = batch.names
    /\ submitted = batch.transactions

\* C13 as stated: once setup has returned a session, its accounts are exactly
\* a11.test .. a25.test, each created by a transaction that transfers the
\* default 100-unit supply amount.
C13_BatchA11ToA25 == DefaultBatch(BatchA)

\* C13 amended: the ten names are acc11.test .. acc25.test, each created by
\* a transaction that transfers the default 100-unit supply amount.
C13_BatchAcc11ToAcc25 == DefaultBatch(BatchAcc)

C13_Witness ==
  /\ sess = "active"
  /\ Len(accounts) = 10
  /\ accounts[10] = <<"acc", "2", "5", ".test">>
  /\ submitted[10].quantity.amount = 100

\* C16 as stated: on a fresh session, after addTime(10) with no override has
\* returned normally, the increase of timeAdded plus 0.5 s per block that
\* elapsed during the first settle wait is at least 10 s (both sides in half
\* seconds).
FirstAddTimeOfTenReturned ==
  /\ pc = "addTimeReturned"
  /\ calls = 1 /\ timeAddedBefore = 0
  /\ time = 20 /\ fromBlockTime = NoFrom

LoopEnded(s) == Len(testAccountNames[s]) = length

C12_DistinctDeterministicNames ==
  /\ \A s \in Sessions : Len(testAccountNames[s]) <= length
  /\ \A s \in Sessions :
       LoopEnded(s) =>
         \A j, k \in 1..length :
           j < k => testAccountNames[s][j] # testAccountNames[s][k]
  /\ \A s, t \in Sessions :
       \A k \in 1..Len(testAccountNames[s]) :
         k <= Len(testAccountNames[t]) =>
           testAccountNames[s][k] = testAccountNames[t][k]

\* C12 witness: both sessions finished a batch large enough for a two-digit
\* group number (the 46th name is acc101.test).
C12_Witness ==
  /\ length >= 46
  /\ \A s \in Sessions : LoopEnded(s)
  /\ testAccountNames[1][46] = <<"acc", "1", "0", "1", ".test">>

\* C17: the node instance is stopped only by clear().  The node is stopped
\* only in the state clear() leaves (the one operation that calls
\* killExistingChainContainer), and after setupChain failed once the node
\* had been started (readiness timeout, system-contract timeout or a failed
\* account transaction) the node is still running.
C17_StoppedOnlyByClear ==
  /\ node = "stopped" => (pc = "cleared" /\ sess = "cleared" /\ "stop" \in ev)
  /\ "stop" \in ev => pc = "cleared"
  /\ (pc = "setupThrew" /\ err # "startChainContainer") => node = "running"
  /\ (pc = "addTimeThrew") => node = "running"

\* C17 witness: provisioning failed at the sixth account and the node went
\* on producing blocks afterwards.
C17_Witness ==
  /\ pc = "setupThrew" /\ err = "transact"
  /\ Len(accountInstances) = 5
  /\ node = "running" /\ head = MaxHead

\* C18: the order of events in an addTime call that applies an offset.  In
\* every step: a manipulateChainTime call is made only once the first settle
\* wait has returned with at least 2 blocks elapsed, and leaves timeAdded
\* alone; timeAdded changes only when an isProducingBlock call that followed
\* a jump has returned true, from its value at the start of the call, by
\* exactly addingTime, and the second settle wait starts in the same step;
\* and a call that jumped returns only once that second wait has returned
\* with at least 2 blocks elapsed, timeAdded being the committed value.
JumpStep == nJumps' = nJumps + 1

CommitStep == timeAdded' # timeAdded

ReturnAfterJumpStep ==
  pc # "addTimeReturned" /\ pc' = "addTimeReturned" /\ nJumps' > 0

C18_OrderOfEvents ==
  [][/\ JumpStep =>
          /\ elapsedBlocks' >= SettleBlocks
          /\ nJumps = 0 =>
                (pc = "settle1" /\ wpc = "returned"
                   /\ ElapsedBlocks >= SettleBlocks)
          /\ nJumps > 0 => pc = "retry"
          /\ timeAdded' = timeAdded
     /\ CommitStep =>
          /\ pc = "retry" /\ ppc = "returned" /\ producing
          /\ nJumps >= 1
          /\ timeAdded = timeAddedBefore
          /\ timeAdded' = timeAdded + addingTime
          /\ pc' = "settle2" /\ wpc' # "returned"
     /\ ReturnAfterJumpStep =>
          /\ pc = "settle2" /\ wpc = "returned"
          /\ ElapsedBlocks >= SettleBlocks
          /\ timeAdded' = timeAddedBefore + addingTime
          /\ timeAdded' = timeAdded
    ]_vars

\* C18 witness: a call whose first jump stalled the node jumped again,
\* committed its offset on top of an earlier one and returned.
C18_Witness ==
  /\ pc = "addTimeReturned"
  /\ nJumps >= 2
  /\ timeAddedBefore > 0
  /\ timeAdded = timeAddedBefore + addingTime
  /\ addingTime > 0

\* C19: termination.  Under fair block production and fair scheduling every
\* addTime call in progress ends (returns or throws) unless it sits in a
\* settle wait while the head block number has stopped below the target
\* of the wait; and from such a state on waitTillBlock never returns, and so
\* addTime never returns.
AddTimeRunning == pc \in {"settle1", "retry", "settle2"}

AddTimeEnded == pc \in {"addTimeReturned", "addTimeThrew"}

StalledWait ==
  /\ pc \in {"settle1", "settle2"}
  /\ wpc = "poll"
  /\ head = MaxHead /\ head < target

C19_TerminatesUnlessHeadStalls ==
  /\ AddTimeRunning ~> (AddTimeEnded \/ StalledWait)
  /\ [](StalledWait => [](wpc # "returned" /\ pc # "addTimeReturned"))

\* C19 witness: the offset is committed and the second settle wait polls a
\* head that has stopped one block below its target.
C19_Witness ==
  /\ pc = "settle2" /\ StalledWait
  /\ nJumps > 0 /\ timeAdded > 0
  /\ currentBlockHeight = MaxHead

\* C14: at most one active session owns a given port: two sessions that
\* have both been set up and not yet torn down by clear() have different
\* ports, and each one's container is running.
C14_ActivePortsDiffer ==
  \A s, t \in Sessions :
    (s # t /\ Active(s) /\ Active(t)) =>
      /\ chains[s].port # chains[t].port
      /\ containers[chains[s].port].state = "running"

\* C14 witness: both sessions are set up, on different ports, and each one
\* has added time on its own node.
C14_Witness ==
  /\ Active(1) /\ Active(2)
  /\ chains[1].port # chains[2].port
  /\ chains[1].timeAdded > 0 /\ chains[2].timeAdded > 0

\* C15: sessions share no mutable state: a step of an operation of one
\* session leaves timeAdded, port, accounts and the retry counter of every
\* other session unchanged.
C15_NoSharedState ==
  [][\A s \in Sessions :
       s # actor' =>
         /\ chains'[s].timeAdded = chains[s].timeAdded
         /\ chains'[s].port = chains[s].port
         /\ chains'[s].accounts = chains[s].accounts
         /\ chains'[s].retryCount = chains[s].retryCount
         /\ chains'[s].addingTime = chains[s].addingTime
    ]_vars

\* C15 witness: session 2 committed an offset while session 1 was between
\* its jump and its commit, and session 1 still holds its own values.
C15_Witness ==
  /\ actor = 2
  /\ chains[1].pc = "commit" /\ chains[1].addingTime = 2
  /\ chains[1].timeAdded = 1
  /\ chains[2].pc = "idle" /\ chains[2].timeAdded = 2

\* C20: the tracked offset is consistent with the node.  When no addTime call
\* is in progress and none has failed by exhausting its retries, timeAdded
\* is the offset most recently handed to manipulateChainTime (0 if there was
\* none); and every jump of a call hands over timeAdded at the start of the
\* call plus the computed offset.
TrackedOffsetConsistent ==
  /\ ((\A c \in Invocations : ~InProgress(c)) /\ ~session.exhausted) =>
       session.timeAdded = session.lastOffset
  /\ \A c \in Invocations : invocations[c].sameOffset

\* C20 as stated: also when two calls are started without awaiting the first.
C20_ConsistentAlsoWhenOverlapping == TrackedOffsetConsistent

\* C20 amended: when each addTime call is awaited before the next one is
\* started.
C20_ConsistentWhenAwaited == ~session.overlapped => TrackedOffsetConsistent

\* C20 witness: two calls were awaited one after the other, the second one
\* jumped more than once, and timeAdded is the last offset handed over.
C20_Witness ==
  /\ ~session.overlapped /\ ~session.exhausted
  /\ \A c \in Invocations : invocations[c].pc = "returned"
  /\ invocations[2].before = 2 /\ invocations[2].tries = 3
  /\ session.timeAdded = 3 /\ session.lastOffset = 3

====
